---- MODULE Spec2Model ----
(***************************************************************************)
(* Model of the performance-test orchestration engine of grpc-poc:         *)
(*   client/src/services/orchestratorService.js  (OrchestratorService)     *)
(*   client/src/clients/grpcClient.js            (GrpcClient)              *)
(*   client/src/clients/httpClient.js            (HttpClient)              *)
(*   client/src/index.js                         (the /api/tests routes)   *)
(*   server/.../GrpcPerformanceTestService.java  (the streaming service)   *)
(*                                                                         *)
(* JavaScript runs one event-loop turn at a time.  Every action below is   *)
(* the code that runs between two suspension points (an await on a network *)
(* response, on a timer, or on a promise settled by one of them).          *)
(*                                                                         *)
(* Conventions.                                                            *)
(*  - A JavaScript object is a TLA+ record; a property whose value is      *)
(*    `undefined` is an absent field (JSON.stringify and jest toEqual      *)
(*    treat both alike).                                                   *)
(*  - testId stands for the uuid of a run: the n-th generated uuid is n.   *)
(*    The Map activeTests keeps insertion order, so it is the sequence of  *)
(*    its values indexed by testId.  The local object testResults of a run *)
(*    and the value stored in the Map are one object (a reference), so     *)
(*    activeTests[t] is both.                                              *)
(*  - Times are integers read from the clock `now`; Date.now() and         *)
(*    new Date().toISOString() both read it.                               *)
(*  - A JavaScript number that results from a division is the pair         *)
(*    <<numerator, denominator>> in lowest terms; NaN and Infinity are the *)
(*    pairs with denominator 0.                                            *)
(***************************************************************************)
EXTENDS Integers, Sequences, FiniteSets, TLC

\* ---------------------------------------------------------------- bounds
MaxTests == 2        \* calls of runPerformanceComparison
MaxRequests == 2     \* largest numRequests of a configuration
MaxConcurrency == 2  \* largest concurrency of a configuration
MaxClock == 2        \* the clock runs from 1 to MaxClock
MaxResults == 2      \* longest result list given to calculateComparisonMetrics

VARIABLES
  activeTests,      \* OrchestratorService.activeTests: testId -> TestRecord
  run,              \* per call of runPerformanceComparison: position and locals
  drv,              \* per run and protocol: the driver's performanceTest call
  now,              \* the wall clock
  shutdownOutcome,  \* how the last shutdown() call settled ("none": no call yet)
  returned,         \* per run: the record the call resolved with
  call              \* the last read-only call and what it answered

vars == <<activeTests, run, drv, now, shutdownOutcome, returned, call>>

Null == 0  \* endTime: null; the clock never reads 0

Protocols == {"grpc", "http"}

Min(a, b) == IF a < b THEN a ELSE b

Range(s) == {s[i] : i \in DOMAIN s}

RECURSIVE SumSeq(_)
SumSeq(s) == IF s = <<>> THEN 0 ELSE Head(s) + SumSeq(Tail(s))

RECURSIVE Gcd(_, _)
Gcd(a, b) == IF b = 0 THEN a ELSE Gcd(b, a % b)

\* a / b on non-negative numbers, as JavaScript computes it
Div(a, b) ==
  IF b = 0 THEN (IF a = 0 THEN <<0, 0>> ELSE <<1, 0>>)
  ELSE <<a \div Gcd(a, b), b \div Gcd(a, b)>>

\* ------------------------------------------------------- configurations
\* testConfig.protocols that is not an array (POST /api/tests passes the
\* submitted value through unvalidated, e.g. {"protocols": 5})
NotAnArray == <<"not-an-array">>

ProtocolLists ==
  {<<>>, <<"grpc">>, <<"http">>, <<"grpc", "http">>, <<"http", "grpc">>,
   <<"invalid-protocol">>}

\* the configurations a caller may submit; unary mode (useGrpcStreaming
\* is not true), no httpMaxSockets override
Configs ==
  [numRequests : 0..MaxRequests,
   concurrency : 1..MaxConcurrency,
   protocols   : ProtocolLists \cup {NotAnArray}]

\* Array.prototype.includes
Includes(list, p) == p \in Range(list)

\* ---------------------------------------------------------------- drivers
\* for (let i = 0; i < numRequests; i += concurrency): the values of i
RECURSIVE BatchStartsFrom(_, _, _)
BatchStartsFrom(i, numRequests, concurrency) ==
  IF i < numRequests
    THEN <<i>> \o BatchStartsFrom(i + concurrency, numRequests, concurrency)
    ELSE <<>>

BatchStarts(cfg) == BatchStartsFrom(0, cfg.numRequests, cfg.concurrency)

\* const batchSize = Math.min(concurrency, numRequests - i)
BatchSize(cfg, i) == Min(cfg.concurrency, cfg.numRequests - i)

\* the requests (numbered from 1 in dispatch order) of the k-th batch
BatchMembers(cfg, k) ==
  LET i == BatchStarts(cfg)[k]
  IN  (i + 1)..(i + BatchSize(cfg, i))

\* variant of Dispatched: the first request is handed out before the loop
\* test
DispatchedDoWhile(cfg) ==
  LET starts == BatchStarts(cfg)
  IN  IF starts = <<>> THEN 1
      ELSE SumSeq([k \in DOMAIN starts |-> BatchSize(cfg, starts[k])])

\* number of requests the dispatch loop creates
Dispatched(cfg) ==
  LET starts == BatchStarts(cfg)
  IN  SumSeq([k \in DOMAIN starts |-> BatchSize(cfg, starts[k])])

NoResult == [protocol |-> "none"]

IdleDriver ==
  [pc |-> "idle", startTime |-> Null, req |-> <<>>, k |-> 1,
   collected |-> <<>>, result |-> NoResult]

\* for (let i = 0; i < numRequests; i += concurrency) never ends when the
\* step is zero or negative and the first test succeeds: i stays below
\* numRequests
LoopDiverges(cfg) == 0 < cfg.numRequests /\ cfg.concurrency <= 0

\* performanceTest up to its first await: every batch's requests are handed
\* to processData, which sends each one at once, and Promise.all is taken
\* of every batch before any batch is awaited.  When the loop never ends
\* the call stays in it ("looping") and the event loop with it.
DispatchAll(cfg) ==
  IF LoopDiverges(cfg)
    THEN [IdleDriver EXCEPT !.pc = "looping", !.startTime = now]
    ELSE [pc |-> "awaiting", startTime |-> now,
          req |-> [i \in 1..Dispatched(cfg) |->
                     [state |-> "inflight", clientDuration |-> 0]],
          k |-> 1, collected |-> <<>>, result |-> NoResult]

InFlight(d) == {i \in DOMAIN d.req : d.req[i].state = "inflight"}

\* state of Promise.all(batchPromises) of the k-th batch
BatchState(cfg, d, k) ==
  IF \E i \in BatchMembers(cfg, k) : d.req[i].state = "failed" THEN "rejected"
  ELSE IF \A i \in BatchMembers(cfg, k) : d.req[i].state = "ok" THEN "fulfilled"
  ELSE "pending"

\* the batch promises that are rejected and that performanceTest has not
\* awaited: the loop of awaits has not reached them, or has ended with a
\* throw before them, so no handler is attached to them and the process
\* reports an unhandled rejection
UnhandledRejections(cfg, d) ==
  IF d.pc \in {"awaiting", "threw"}
  THEN {k \in DOMAIN BatchStarts(cfg) :
          k > d.k /\ BatchState(cfg, d, k) = "rejected"}
  ELSE {}

\* what the loop over a fulfilled batch's results adds to the collected
\* latencies: the gRPC driver skips a falsy clientDuration, the HTTP driver
\* keeps every result
CollectBatch(p, cfg, d, k) ==
  LET i0 == BatchStarts(cfg)[k]
      all == [j \in 1..BatchSize(cfg, i0) |-> d.req[i0 + j].clientDuration]
  IN  IF p = "grpc" THEN SelectSeq(all, LAMBDA x : x # 0) ELSE all

\* the object performanceTest returns
DriverResult(p, cfg, d) ==
  LET totalDuration == now - d.startTime
      successfulRequests == Len(d.collected)
      sum == SumSeq(d.collected)
  IN  [protocol |-> p,
       totalRequests |-> cfg.numRequests,
       successfulRequests |-> successfulRequests,
       totalDuration |-> totalDuration,
       averageLatency |->
         IF p = "http" /\ successfulRequests = 0 THEN <<0, 1>>
         ELSE Div(sum, successfulRequests),
       throughput |-> Div(successfulRequests * 1000, totalDuration),
       results |-> d.collected]

ErrorMessage(p) == p \o " request failed"

\* the loop `for (const batchPromise of promises) await batchPromise` of
\* driver p, run as far as the settled batch promises allow: a fulfilled
\* batch is collected and the next one awaited, a rejected batch makes
\* performanceTest throw, and after the last batch the result is returned
RECURSIVE ResumeDriver(_, _, _)
ResumeDriver(p, cfg, d) ==
  IF d.pc # "awaiting" THEN d
  ELSE IF d.k > Len(BatchStarts(cfg))
    THEN [d EXCEPT !.pc = "returned", !.result = DriverResult(p, cfg, d)]
  ELSE IF BatchState(cfg, d, d.k) = "fulfilled"
    THEN ResumeDriver(p, cfg,
           [d EXCEPT !.k = d.k + 1,
                     !.collected = d.collected \o CollectBatch(p, cfg, d, d.k)])
  ELSE IF BatchState(cfg, d, d.k) = "rejected"
    THEN [d EXCEPT !.pc = "threw"]
  ELSE d

\* ----------------------------------------------------------- orchestrator
EmptyMap == <<>>

NoRecord == [testId |-> 0]

\* the object stored in testResults.results for one entry of the local
\* results list: the seven listed properties, copied from the entry (a
\* property the entry lacks is undefined in the copy)
SummaryFields ==
  {"protocol", "totalRequests", "successfulRequests", "failedRequests",
   "averageLatency", "throughput", "totalDuration"}

\* variant of Summary: the whole driver result is stored
SummaryWhole(result) == result

Summary(result) ==
  [f \in SummaryFields \cap DOMAIN result |-> result[f]]

\* results.push({ protocol, ...result }) after a driver returned
ResultEntry(p, result) ==
  [f \in {"protocol"} \cup DOMAIN result |->
     IF f \in DOMAIN result THEN result[f] ELSE p]

\* the entry pushed by the catch block around a driver's performanceTest
ErrorEntry(p, cfg, message) ==
  [protocol |-> p, error |-> message, totalRequests |-> 0,
   successfulRequests |-> 0, failedRequests |-> cfg.numRequests]

\* results.forEach(result => testResults.results[result.protocol] = ...)
RECURSIVE StoreResults(_, _)
StoreResults(map, results) ==
  IF results = <<>> THEN map
  ELSE StoreResults(
         [q \in DOMAIN map \cup {Head(results).protocol} |->
            IF q = Head(results).protocol THEN Summary(Head(results))
            ELSE map[q]],
         Tail(results))

\* ------------------------------------------------------------- comparison
\* JavaScript numbers: <<n, d>> with d > 0 in lowest terms is n / d,
\* <<0, 0>> is NaN, <<1, 0>> is Infinity and <<-1, 0>> is -Infinity
NaN == <<0, 0>>

Infinity == <<1, 0>>

Zero == <<0, 1>>

Abs(n) == IF n < 0 THEN -n ELSE n

Sign(n) == IF n < 0 THEN -1 ELSE IF n = 0 THEN 0 ELSE 1

\* n / d for d > 0, in lowest terms
Norm(n, d) == <<Sign(n) * (Abs(n) \div Gcd(Abs(n), d)), d \div Gcd(Abs(n), d)>>

\* the value of property f of object r in arithmetic and in comparisons:
\* undefined converts to NaN
Num(r, f) == IF f \in DOMAIN r THEN r[f] ELSE NaN

\* x / y
Quot(x, y) ==
  IF x = NaN \/ y = NaN THEN NaN
  ELSE IF x[2] = 0
    THEN (IF y[2] = 0 THEN NaN
          ELSE <<x[1] * (IF y[1] < 0 THEN -1 ELSE 1), 0>>)
  ELSE IF y[2] = 0 THEN Zero
  ELSE IF y[1] = 0 THEN (IF x[1] = 0 THEN NaN ELSE <<Sign(x[1]), 0>>)
  ELSE Norm(x[1] * y[2] * Sign(y[1]), x[2] * Abs(y[1]))

\* x - y
Minus(x, y) ==
  IF x = NaN \/ y = NaN THEN NaN
  ELSE IF x[2] = 0 THEN (IF y = x THEN NaN ELSE x)
  ELSE IF y[2] = 0 THEN <<-y[1], 0>>
  ELSE Norm(x[1] * y[2] - y[1] * x[2], x[2] * y[2])

\* x * k for an integer k > 0
Times(x, k) == IF x[2] = 0 THEN x ELSE Norm(x[1] * k, x[2])

\* x > y
Greater(x, y) ==
  IF x = NaN \/ y = NaN \/ x = y THEN FALSE
  ELSE IF x[2] = 0 THEN x[1] > 0
  ELSE IF y[2] = 0 THEN y[1] < 0
  ELSE x[1] * y[2] > y[1] * x[2]

\* x < y
Less(x, y) == Greater(y, x)

\* Number.prototype.toFixed(2): the decimal string with two fraction
\* digits nearest to x
ToFixed(x) ==
  IF x = NaN THEN "NaN"
  ELSE IF x[2] = 0 THEN (IF x[1] > 0 THEN "Infinity" ELSE "-Infinity")
  ELSE LET h == (200 * Abs(x[1]) + x[2]) \div (2 * x[2])
       IN  (IF x[1] < 0 THEN "-" ELSE "") \o ToString(h \div 100) \o "."
             \o ToString((h % 100) \div 10) \o ToString(h % 10)

\* variant of BaselineResult: always the first result
BaselineResultFirst(results) == results[1]

\* results.find(r => r.protocol === 'grpc') || results[0]
BaselineResult(results) ==
  IF \E i \in 1..Len(results) : results[i].protocol = "grpc"
    THEN results[CHOOSE i \in 1..Len(results) :
                   /\ results[i].protocol = "grpc"
                   /\ \A j \in 1..(i - 1) : results[j].protocol # "grpc"]
    ELSE results[1]

\* the entry of throughputComparison for one result
ThroughputEntry(result, baseline) ==
  LET t == Num(result, "throughput")
      b == Num(baseline, "throughput")
      entry == [relativeTo |-> baseline.protocol,
                ratio |-> Quot(t, b),
                improvement |-> ToFixed(Times(Quot(Minus(t, b), b), 100))]
  IN  [f \in DOMAIN entry
             \cup (IF "throughput" \in DOMAIN result THEN {"value"} ELSE {}) |->
         IF f = "value" THEN result.throughput ELSE entry[f]]

\* the entry of latencyComparison for one result
LatencyEntry(result, baseline) ==
  LET l == Num(result, "averageLatency")
      b == Num(baseline, "averageLatency")
      entry == [relativeTo |-> baseline.protocol,
                ratio |-> Quot(l, b),
                improvement |-> ToFixed(Times(Quot(Minus(b, l), b), 100))]
  IN  [f \in DOMAIN entry
             \cup (IF "averageLatency" \in DOMAIN result
                     THEN {"value"} ELSE {}) |->
         IF f = "value" THEN result.averageLatency ELSE entry[f]]

\* the last result of the list with the given protocol: forEach assigns
\* metrics.*[protocol] in list order
LastOf(results, protocol) ==
  results[CHOOSE i \in 1..Len(results) :
            /\ results[i].protocol = protocol
            /\ \A j \in (i + 1)..Len(results) :
                 results[j].protocol # protocol]

\* results.reduce((prev, current) =>
\*   prev.throughput > current.throughput ? prev : current)
RECURSIVE Fastest(_, _)
Fastest(prev, rest) ==
  IF rest = <<>> THEN prev
  ELSE Fastest(IF Greater(Num(prev, "throughput"),
                          Num(Head(rest), "throughput"))
                 THEN prev ELSE Head(rest),
               Tail(rest))

\* results.reduce((prev, current) =>
\*   prev.averageLatency < current.averageLatency ? prev : current)
RECURSIVE LowestLatency(_, _)
LowestLatency(prev, rest) ==
  IF rest = <<>> THEN prev
  ELSE LowestLatency(IF Less(Num(prev, "averageLatency"),
                             Num(Head(rest), "averageLatency"))
                       THEN prev ELSE Head(rest),
                     Tail(rest))

\* the summary of an empty result list
EmptySummary == [maxThroughput |-> Zero, minLatency |-> Zero]

\* the summary of a non-empty result list
SummaryOf(results) ==
  LET fastest == Fastest(Head(results), Tail(results))
      lowestLatency == LowestLatency(Head(results), Tail(results))
      named == [fastestProtocol |-> fastest.protocol,
                lowestLatencyProtocol |-> lowestLatency.protocol]
  IN  [f \in DOMAIN named
             \cup (IF "throughput" \in DOMAIN fastest
                     THEN {"maxThroughput"} ELSE {})
             \cup (IF "averageLatency" \in DOMAIN lowestLatency
                     THEN {"minLatency"} ELSE {}) |->
         IF f = "maxThroughput" THEN fastest.throughput
         ELSE IF f = "minLatency" THEN lowestLatency.averageLatency
         ELSE named[f]]

\* variant of CalculateComparisonMetrics: no early return for an empty
\* list, so reduce throws on it
CalculateComparisonMetricsUnguarded(results) ==
  IF results = <<>>
    THEN [error |-> "Reduce of empty array with no initial value"]
    ELSE LET baseline == BaselineResult(results)
             protocols == {results[i].protocol : i \in 1..Len(results)}
         IN  [throughputComparison |->
                [q \in protocols |->
                   ThroughputEntry(LastOf(results, q), baseline)],
              latencyComparison |->
                [q \in protocols |->
                   LatencyEntry(LastOf(results, q), baseline)],
              summary |-> SummaryOf(results)]

\* calculateComparisonMetrics
CalculateComparisonMetrics(results) ==
  IF results = <<>>
    THEN [throughputComparison |-> EmptyMap, latencyComparison |-> EmptyMap,
          summary |-> EmptySummary]
    ELSE LET baseline == BaselineResult(results)
             protocols == {results[i].protocol : i \in 1..Len(results)}
         IN  [throughputComparison |->
                [q \in protocols |->
                   ThroughputEntry(LastOf(results, q), baseline)],
              latencyComparison |->
                [q \in protocols |->
                   LatencyEntry(LastOf(results, q), baseline)],
              summary |-> SummaryOf(results)]

\* variant of NextStage: a list naming no known protocol falls back to the
\* default list
NextStageDefaulting(cfg, after) ==
  LET list == IF Range(cfg.protocols) \cap Protocols = {}
                THEN <<"grpc", "http">> ELSE cfg.protocols
  IN  IF after = "start" /\ Includes(list, "grpc") THEN "grpc"
      ELSE IF after \in {"start", "grpc"} /\ Includes(list, "http")
        THEN (IF Includes(list, "grpc") THEN "delay" ELSE "http")
      ELSE IF after = "delay" THEN "http"
      ELSE "finish"

\* where runPerformanceComparison goes next: "grpc" and "http" call the
\* driver, "delay" is the one-second timer before HTTP, "finish" stores
\* the results.  `after` is the stage just left.
NextStage(cfg, after) ==
  IF after = "start" /\ Includes(cfg.protocols, "grpc") THEN "grpc"
  ELSE IF after \in {"start", "grpc"} /\ Includes(cfg.protocols, "http")
    THEN (IF Includes(cfg.protocols, "grpc") THEN "delay" ELSE "http")
  ELSE IF after = "delay" THEN "http"
  ELSE "finish"

\* lines 108-129 and the finally block: the record completes
Completed(test, results) ==
  [f \in DOMAIN test \cup {"comparison"} |->
     IF f = "results" THEN StoreResults(test.results, results)
     ELSE IF f = "endTime" THEN now
     ELSE IF f = "status" THEN "completed"
     ELSE IF f = "comparison" THEN CalculateComparisonMetrics(results)
     ELSE test[f]]

\* variant of Failed: the catch block sets the status and the error only
FailedNoEndTime(test, message) ==
  [f \in DOMAIN test \cup {"error"} |->
     IF f = "status" THEN "failed"
     ELSE IF f = "error" THEN message
     ELSE test[f]]

\* the outer catch and the finally block: the record fails
Failed(test, message) ==
  [f \in DOMAIN test \cup {"error"} |->
     IF f = "endTime" THEN now
     ELSE IF f = "status" THEN "failed"
     ELSE IF f = "error" THEN message
     ELSE test[f]]

\* One call of runPerformanceComparison is the record
\*   w = [test, pc, results, outcome, drv, returned]
\* of its TestRecord, its position, its local results list, how the call
\* settled, its two drivers' performanceTest calls, and the record the call
\* resolved with.

\* an exception reaches the outer catch: the call rejects
Thrown(w, message) ==
  [w EXCEPT !.test = Failed(w.test, message),
            !.pc = "done",
            !.outcome = "rejected"]

\* variant of ProtocolFailed: the driver's failure is not caught per protocol
\* and reaches the outer catch
ProtocolFailedRethrown(w, p, message) == Thrown(w, message)

\* the catch block around a driver's performanceTest: the failure becomes
\* an error entry of the local results list
ProtocolFailed(w, p, message) ==
  [w EXCEPT !.results = Append(w.results,
                               ErrorEntry(p, w.test.config, message))]

\* a driver's performanceTest returned: the result is pushed
ProtocolSucceeded(w, p, result) ==
  [w EXCEPT !.results = Append(w.results, ResultEntry(p, result))]

\* runPerformanceComparison from the point where it enters `stage` up to its
\* next suspension point (a pending batch of a driver, the timer) or its
\* end; a call that has already settled does nothing more
RECURSIVE Advance(_, _)
Advance(w, stage) ==
  LET cfg == w.test.config
  IN  IF w.pc = "done" THEN w
      ELSE IF stage \in Protocols THEN
        LET d == ResumeDriver(stage, cfg, DispatchAll(cfg))
            w1 == [w EXCEPT !.pc = stage, !.drv[stage] = d]
        IN  IF d.pc \in {"awaiting", "looping"} THEN w1
            ELSE IF d.pc = "threw"
              THEN Advance(ProtocolFailed(w1, stage, ErrorMessage(stage)),
                           NextStage(cfg, stage))
            ELSE Advance(ProtocolSucceeded(w1, stage, d.result),
                         NextStage(cfg, stage))
      ELSE IF stage = "delay" THEN [w EXCEPT !.pc = "delay"]
      ELSE LET completed == Completed(w.test, w.results)
           IN  [w EXCEPT !.test = completed,
                         !.pc = "done",
                         !.outcome = "resolved",
                         !.returned = completed]

\* run t as one record
RunOf(t) ==
  [test |-> activeTests[t], pc |-> run[t].pc, results |-> run[t].results,
   outcome |-> run[t].outcome, drv |-> drv[t], returned |-> returned[t]]

\* variant of Install: the runs in progress share one record
InstallShared(t, w, T) ==
  /\ activeTests' = [i \in DOMAIN T |->
                       IF i = t \/ T[i].status = "running"
                         THEN w.test ELSE T[i]]
  /\ run' = [run EXCEPT ![t] = [pc |-> w.pc, results |-> w.results,
                                outcome |-> w.outcome]]
  /\ drv' = [drv EXCEPT ![t] = w.drv]
  /\ returned' = [returned EXCEPT ![t] = w.returned]

\* the variables after run t became w, in the registry T
Install(t, w, T) ==
  /\ activeTests' = [T EXCEPT ![t] = w.test]
  /\ run' = [run EXCEPT ![t] = [pc |-> w.pc, results |-> w.results,
                                outcome |-> w.outcome]]
  /\ drv' = [drv EXCEPT ![t] = w.drv]
  /\ returned' = [returned EXCEPT ![t] = w.returned]

\* variant of MarkInterrupted: the status is set, the end time is not
MarkInterruptedNoEndTime(test) ==
  IF test.status = "running"
    THEN [test EXCEPT !.status = "interrupted"]
    ELSE test

\* shutdown's loop body for one record
MarkInterrupted(test) ==
  IF test.status = "running"
    THEN [test EXCEPT !.status = "interrupted", !.endTime = now]
    ELSE test

\* how shutdown() settles, given whether grpcClient.close() succeeded:
\* the failure is caught and logged
ShutdownSettles(closeOk) == "resolved"

\* ------------------------------------------------------------------ reads
\* no read-only call has been made yet
NoCall == [op |-> "none"]

\* getTestStatus
GetTestStatus(testId) ==
  IF testId \in DOMAIN activeTests THEN activeTests[testId] ELSE NoRecord

\* getTestStatus throws when the map has no record under the id (every
\* record is an object, so `!test` tells exactly that)
GetTestStatusRejects(testId) == GetTestStatus(testId) = NoRecord

\* the message of the error getTestStatus throws
NotFoundMessage(testId) == "Test " \o ToString(testId) \o " not found"

\* variant of TestRouteStatus: the catch block answers as the other routes do
TestRouteStatusServerError(rejected) == IF rejected THEN 500 ELSE 200

\* GET /api/tests/:testId: res.json answers 200, the catch block 404
TestRouteStatus(rejected) == IF rejected THEN 404 ELSE 200

\* what GET /api/tests/:testId answers
TestRouteResponse(testId) ==
  IF GetTestStatusRejects(testId)
    THEN [op |-> "GET /api/tests/:testId", testId |-> testId,
          status |-> TestRouteStatus(TRUE),
          error |-> "Test not found", message |-> NotFoundMessage(testId)]
    ELSE [op |-> "GET /api/tests/:testId", testId |-> testId,
          status |-> TestRouteStatus(FALSE), body |-> GetTestStatus(testId)]

\* the body POST /api/tests answers with once the run resolved with
\* testInfo: the listed properties of the record, and of each protocol
\* result the seven summary properties
LightweightResponse(testInfo) ==
  [message |-> "Performance test completed",
   testId |-> testInfo.testId,
   results |->
     [f \in ({"testId", "testName", "startTime", "endTime", "status",
              "config", "error", "results"} \cap DOMAIN testInfo) |->
        IF f = "results"
          THEN [q \in DOMAIN testInfo.results |->
                  [g \in SummaryFields \cap DOMAIN testInfo.results[q] |->
                     testInfo.results[q][g]]]
          ELSE testInfo[f]]]

\* variant of CompareTests: oldest first
CompareTestsAscending(a, b) == a.startTime - b.startTime

\* the comparator of getAllTests: negative when a goes first
CompareTests(a, b) == b.startTime - a.startTime

\* Array.prototype.sort (stable) with CompareTests, as an insertion sort
RECURSIVE InsertSorted(_, _)
InsertSorted(sorted, x) ==
  IF sorted = <<>> THEN <<x>>
  ELSE IF CompareTests(Head(sorted), x) <= 0
    THEN <<Head(sorted)>> \o InsertSorted(Tail(sorted), x)
    ELSE <<x>> \o sorted

RECURSIVE SortTests(_)
SortTests(list) ==
  IF list = <<>> THEN <<>>
  ELSE InsertSorted(SortTests(SubSeq(list, 1, Len(list) - 1)), list[Len(list)])

LightweightResultFields ==
  {"totalRequests", "successfulRequests", "failedRequests", "averageLatency",
   "minLatency", "maxLatency", "throughput", "totalDataTransferred",
   "averageRequestSize", "averageResponseSize", "duration", "startTime",
   "endTime"}

Lightweight(test) ==
  [testId |-> test.testId, startTime |-> test.startTime,
   endTime |-> test.endTime, status |-> test.status, config |-> test.config,
   results |-> [q \in DOMAIN test.results |->
                  [f \in LightweightResultFields \cap DOMAIN test.results[q]
                     |-> test.results[q][f]]]]

\* getAllTests
GetAllTests ==
  SortTests([i \in DOMAIN activeTests |-> Lightweight(activeTests[i])])

\* ---------------------------------------------------------------- actions
\* Each action is one turn of the event loop: a handler together with the
\* promise continuations it makes ready, which run before any other
\* handler.  A turn takes no time; Tick advances the clock between turns.

Init ==
  /\ activeTests = <<>>
  /\ run = [t \in 1..MaxTests |->
              [pc |-> "unused", results |-> <<>>, outcome |-> "pending"]]
  /\ drv = [t \in 1..MaxTests |-> [p \in Protocols |-> IdleDriver]]
  /\ now = 1
  /\ shutdownOutcome = "none"
  /\ returned = [t \in 1..MaxTests |-> NoRecord]
  /\ call = NoCall

\* runPerformanceComparison(cfg) is called: lines 24-55 register the
\* record, then the call runs to its first suspension point
RunPerformanceComparison(cfg) ==
  LET t == Len(activeTests) + 1
      test == [testId |-> t, startTime |-> now, endTime |-> Null,
               status |-> "running", config |-> cfg, results |-> EmptyMap]
      w == [test |-> test, pc |-> "start", results |-> <<>>,
            outcome |-> "pending", drv |-> [p \in Protocols |-> IdleDriver],
            returned |-> NoRecord]
  IN  /\ t <= MaxTests
      /\ Install(t,
                 IF cfg.protocols = NotAnArray
                   THEN Thrown(w, "protocols.includes is not a function")
                   ELSE Advance(w, NextStage(cfg, "start")),
                 Append(activeTests, test))
      /\ UNCHANGED <<now, shutdownOutcome, call>>

\* the first call of runPerformanceComparison on a fresh orchestrator
FirstRun(cfg) ==
  /\ activeTests = <<>>
  /\ RunPerformanceComparison(cfg)

\* the response (ok) or the error of request i of run t's driver p arrives:
\* processData's promise settles, and if that settles the batch the driver
\* awaits, performanceTest and runPerformanceComparison resume
RequestSettles(t, p, i, ok) ==
  LET cfg == activeTests[t].config
      d == [drv[t][p] EXCEPT !.req[i] =
              IF ok THEN [state |-> "ok",
                          clientDuration |-> now - drv[t][p].startTime]
                    ELSE [state |-> "failed", clientDuration |-> 0]]
      d1 == ResumeDriver(p, cfg, d)
      w == [RunOf(t) EXCEPT !.drv[p] = d1]
  IN  /\ i \in InFlight(drv[t][p])
      /\ Install(t,
                 IF d.pc = "awaiting" /\ d1.pc = "threw"
                   THEN Advance(ProtocolFailed(w, p, ErrorMessage(p)),
                                NextStage(cfg, p))
                 ELSE IF d.pc = "awaiting" /\ d1.pc = "returned"
                   THEN Advance(ProtocolSucceeded(w, p, d1.result),
                                NextStage(cfg, p))
                 ELSE w,
                 activeTests)
      /\ UNCHANGED <<now, shutdownOutcome, call>>

\* the one-second timer between the gRPC and the HTTP run fires
DelayElapsed(t) ==
  /\ run[t].pc = "delay"
  /\ Install(t, Advance(RunOf(t), NextStage(activeTests[t].config, "delay")),
             activeTests)
  /\ UNCHANGED <<now, shutdownOutcome, call>>

\* shutdown(): the loop over the registry, then grpcClient.close().  close
\* is an async function without an await, so `await this.grpcClient.close()`
\* resumes (or throws into the catch block) within the same event-loop
\* turn: no other handler runs between the loop and shutdown's return.
\* closeOk tells whether client.close() succeeded.  shutdown may be called
\* any number of times (once per signal received).
Shutdown(closeOk) ==
  /\ activeTests' = [i \in DOMAIN activeTests |->
                       MarkInterrupted(activeTests[i])]
  /\ shutdownOutcome' = ShutdownSettles(closeOk)
  /\ UNCHANGED <<run, drv, now, returned, call>>

\* time passes
Tick ==
  /\ now < MaxClock
  /\ now' = now + 1
  /\ UNCHANGED <<activeTests, run, drv, shutdownOutcome, returned, call>>

\* the configurations of the registry specification: one request per
\* protocol run, at most one protocol
RegistryConfigs ==
  [numRequests : {1},
   concurrency : {1},
   protocols   : {<<>>, <<"grpc">>, <<"http">>, NotAnArray}]

Drivers ==
  \E t \in 1..MaxTests, p \in Protocols :
    \E i \in 1..MaxRequests, ok \in BOOLEAN : RequestSettles(t, p, i, ok)

\* one comparison run of any configuration on a fresh orchestrator, with
\* shutdown at any moment
Next ==
  \/ \E cfg \in Configs : FirstRun(cfg)
  \/ Drivers
  \/ \E t \in 1..MaxTests : DelayElapsed(t)
  \/ \E closeOk \in BOOLEAN : Shutdown(closeOk)
  \/ Tick

Spec == Init /\ [][Next]_vars

\* up to MaxTests comparison runs, started at any moment and running
\* concurrently, with shutdown at any moment
NextRegistry ==
  \/ \E cfg \in RegistryConfigs : RunPerformanceComparison(cfg)
  \/ Drivers
  \/ \E closeOk \in BOOLEAN : Shutdown(closeOk)
  \/ Tick

SpecRegistry == Init /\ [][NextRegistry]_vars

\* a call of performanceTest that never leaves its dispatch loop keeps the
\* event loop: no other handler runs
Blocked ==
  \E t \in 1..MaxTests, p \in Protocols : drv[t][p].pc = "looping"

\* configurations whose numbers are out of range: POST /api/tests lets a
\* negative numRequests or concurrency through, and a direct caller of the
\* orchestrator may pass zero
DegenerateConfigs ==
  [numRequests : {-1, 0, 1},
   concurrency : {-1, 0, 1},
   protocols   : {<<"grpc">>, <<"http">>, <<"grpc", "http">>}]

\* one comparison run of an out-of-range configuration
NextDegenerate ==
  \/ ~Blocked /\ \E cfg \in DegenerateConfigs : FirstRun(cfg)
  \/ ~Blocked /\ Drivers
  \/ ~Blocked /\ \E t \in 1..MaxTests : DelayElapsed(t)
  \/ ~Blocked /\ \E closeOk \in BOOLEAN : Shutdown(closeOk)
  \/ ~Blocked /\ Tick

SpecDegenerate == Init /\ [][NextDegenerate]_vars

\* the ids a client may ask for: every id the registry can hold and one it
\* never holds
TestIds == 1..(MaxTests + 1)

\* GET /api/tests/:testId is served
GetTestRoute(testId) ==
  /\ call' = TestRouteResponse(testId)
  /\ UNCHANGED <<activeTests, run, drv, now, shutdownOutcome, returned>>

\* up to MaxTests concurrent comparison runs with shutdown and lookups by
\* id at any moment, within one tick of the clock
NextLookup ==
  \/ \E cfg \in RegistryConfigs : RunPerformanceComparison(cfg)
  \/ Drivers
  \/ \E closeOk \in BOOLEAN : Shutdown(closeOk)
  \/ \E testId \in TestIds : GetTestRoute(testId)

SpecLookup == Init /\ [][NextLookup]_vars

\* the protocol names a result can carry: the gRPC driver names its
\* streaming result "grpc-stream"
ResultProtocols == {"grpc", "grpc-stream", "http"}

\* the values a driver can report as throughput or averageLatency
MetricValues == {Zero, <<1, 1>>, Infinity, NaN}

\* the entries of the local results list: a driver's result, or the entry
\* pushed when the driver failed (no throughput, no averageLatency)
ResultEntries ==
  {[protocol |-> p, throughput |-> x, averageLatency |-> y] :
     p \in ResultProtocols, x \in MetricValues, y \in MetricValues}
  \cup {[protocol |-> p, error |-> ErrorMessage(p)] : p \in ResultProtocols}

ResultLists == UNION {[1..n -> ResultEntries] : n \in 0..MaxResults}

\* calculateComparisonMetrics is about to be called with a result list
InitMetrics ==
  /\ activeTests = <<>>
  /\ run = [t \in 1..MaxTests |->
              [pc |-> "unused", results |-> <<>>, outcome |-> "pending"]]
  /\ drv = [t \in 1..MaxTests |-> [p \in Protocols |-> IdleDriver]]
  /\ now = 1
  /\ shutdownOutcome = "none"
  /\ returned = [t \in 1..MaxTests |-> NoRecord]
  /\ call \in {[op |-> "calculateComparisonMetrics", results |-> results] :
                 results \in ResultLists}

\* calculateComparisonMetrics(results) returns
CalculateComparisonMetricsReturns ==
  /\ call.op = "calculateComparisonMetrics"
  /\ "metrics" \notin DOMAIN call
  /\ call' = [op |-> call.op, results |-> call.results,
              metrics |-> CalculateComparisonMetrics(call.results)]
  /\ UNCHANGED <<activeTests, run, drv, now, shutdownOutcome, returned>>

NextMetrics == CalculateComparisonMetricsReturns

SpecMetrics == InitMetrics /\ [][NextMetrics]_vars

\* ---------------------------------------------------- POST /api/tests
\* the limits of the validation
MaxNumRequests == 10000

MaxConcurrencyAllowed == 100

MaxPayloadSize == 104857600

\* the defaults of the validation
DefaultNumRequests == 100

DefaultConcurrency == 10

DefaultRequestSize == 1048576

DefaultResponseSize == 10485760

\* Math.min(parseInt(body[f]) || default, max) for a body whose property f
\* is missing or an integer: parseInt gives NaN for undefined, and NaN and
\* 0 are falsy
Limited(body, f, default, max) ==
  Min(IF f \in DOMAIN body /\ body[f] # 0 THEN body[f] ELSE default, max)

\* the numeric part of validatedConfig
ValidatedConfig(body) ==
  [numRequests |-> Limited(body, "numRequests", DefaultNumRequests,
                           MaxNumRequests),
   concurrency |-> Limited(body, "concurrency", DefaultConcurrency,
                           MaxConcurrencyAllowed),
   requestSize |-> Limited(body, "requestSize", DefaultRequestSize,
                           MaxPayloadSize),
   responseSize |-> Limited(body, "responseSize", DefaultResponseSize,
                            MaxPayloadSize)]

\* the integers a client may submit for a property limited to max
SubmittedNumbers(max) == {-1, 0, 1, max, max + 1}

\* the bodies a client may submit: each numeric property missing or an
\* integer
SubmittedBodies ==
  LET limit == [numRequests |-> MaxNumRequests,
                concurrency |-> MaxConcurrencyAllowed,
                requestSize |-> MaxPayloadSize,
                responseSize |-> MaxPayloadSize]
  IN  UNION {[present -> UNION {SubmittedNumbers(limit[f]) : f \in present}]
               : present \in SUBSET DOMAIN limit}

\* ------------------------------------------------------------ healthCheck
\* the bodies the server answers GET /health with
HealthBodies == {[status |-> "healthy"]}

\* checks at the start of healthCheck; a property that is null is absent
InitialChecks == [overall |-> "healthy"]

\* checks after httpClient.healthCheck settled: resolved with body, or
\* rejected
HttpChecked(checks, ok, body) ==
  IF ok
  THEN [f \in DOMAIN checks \cup {"http"} |->
          IF f = "http" THEN body ELSE checks[f]]
  ELSE [f \in DOMAIN checks \cup {"http"} |->
          CASE f = "http" -> [status |-> "unhealthy", error |-> "unavailable"]
            [] f = "overall" -> "degraded"
            [] OTHER -> checks[f]]

\* checks after a rejected gRPC request, were gRPC required
GrpcCheckRejectedDegrading(checks) ==
  [f \in DOMAIN checks \cup {"grpc"} |->
     CASE f = "grpc" -> [status |-> "unhealthy", error |-> "unavailable"]
       [] f = "overall" -> "degraded"
       [] OTHER -> checks[f]]

\* checks after grpcClient.processData rejected
GrpcCheckRejected(checks) ==
  [f \in DOMAIN checks \cup {"grpc"} |->
     CASE f = "grpc" -> [status |-> "unhealthy", error |-> "unavailable"]
       [] f = "overall" -> IF checks.http.status = "unhealthy"
                           THEN "degraded" ELSE "healthy"
       [] OTHER -> checks[f]]

\* checks after grpcClient.processData settled: resolved with a response
\* that took clientDuration, or rejected
GrpcChecked(checks, ok, clientDuration) ==
  IF ok
  THEN [f \in DOMAIN checks \cup {"grpc"} |->
          IF f = "grpc"
          THEN [status |-> "healthy", responseTime |-> clientDuration]
          ELSE checks[f]]
  ELSE GrpcCheckRejected(checks)

\* --------------------------------------------------- generateTestRequests
\* JSON.stringify(baseObject).length, the same for source 'grpc' and 'http'
BaseJsonLength == 871

\* a string of the generator is the number of characters kept of the base
\* JSON followed by the number of filler characters 'X'; all of them ASCII
StrLength(str) == str.json + str.filler

\* str.slice(0, n) for n >= 0
Slice(str, n) ==
  [json |-> Min(str.json, n), filler |-> Min(str.filler, n - Min(str.json, n))]

\* str + 'X'.repeat(padLen)
Padded(str, padLen) == [json |-> str.json, filler |-> str.filler + padLen]

\* the payload text were the base JSON only padded, never cut
JsonStringPadded(requestSize) ==
  LET jsonString == [json |-> BaseJsonLength, filler |-> 0]
  IN  IF StrLength(jsonString) < requestSize
      THEN Padded(jsonString, requestSize - StrLength(jsonString))
      ELSE jsonString

\* jsonString after padding or cutting to requestSize
JsonString(requestSize) ==
  LET jsonString == [json |-> BaseJsonLength, filler |-> 0]
  IN  IF StrLength(jsonString) < requestSize
      THEN Padded(jsonString, requestSize - StrLength(jsonString))
      ELSE IF StrLength(jsonString) > requestSize
           THEN Slice(jsonString, requestSize)
           ELSE jsonString

\* Buffer.from(str, 'utf8') of an ASCII string: one byte per character
BufferFrom(str) == [bytes |-> StrLength(str)]

\* buffer.toString('base64'): four characters for every three bytes, the
\* last group filled with '='
ToBase64(buffer) ==
  [chars |-> 4 * ((buffer.bytes + 2) \div 3),
   fill |-> (3 - (buffer.bytes % 3)) % 3]

\* the number of bytes a base64 text stands for
Base64Bytes(text) == (text.chars \div 4) * 3 - text.fill

\* the payload object the generator allocates once
PayloadOf(client, requestSize) ==
  IF client = "grpc"
  THEN BufferFrom(JsonString(requestSize))
  ELSE ToBase64(BufferFrom(JsonString(requestSize)))

\* the requests the generator returns: each holds a reference to the
\* allocated payload, here number 1 of the allocations of the call
GeneratedRequests(client, count) ==
  [i \in 1..count |-> [id |-> <<client, i - 1>>, payload |-> 1]]

\* the request sizes around the empty payload and the base JSON
RequestSizes ==
  {0, 1, 2, 3, BaseJsonLength - 1, BaseJsonLength, BaseJsonLength + 1,
   BaseJsonLength + 2, BaseJsonLength + 3}

\* ------------------------------------------ performanceTest, streaming
\* Math.ceil(numRequests / concurrency) for positive integers
StreamBatchSize(cfg) ==
  (cfg.numRequests + cfg.concurrency - 1) \div cfg.concurrency

\* the sizes of the batches the loop for (i = 0; i < numRequests;
\* i += batchSize) builds: generateTestRequests(batchSize, ...) each time
StreamBatches(cfg) ==
  LET batchSize == StreamBatchSize(cfg)
      starts == BatchStartsFrom(0, cfg.numRequests, batchSize)
  IN  [k \in DOMAIN starts |-> batchSize]

\* the counts of the result of a streaming run in which every stream
\* delivered one response for each request written to it: one latency is
\* pushed for each response
StreamingResult(cfg) ==
  LET responses == StreamBatches(cfg)
  IN  [protocol |-> "grpc-stream",
       totalRequests |-> cfg.numRequests,
       successfulRequests |-> SumSeq(responses)]

\* the configurations of the streaming runs: up to two full batches
StreamingConfigs ==
  [numRequests : 1..(2 * MaxRequests), concurrency : 1..MaxConcurrency]

\* ------------------------------------------- performanceTest, request ids
\* the ids of the requests the unary dispatch loop hands out, in dispatch
\* order: each batch comes from its own generateTestRequests(batchSize, ...)
RECURSIVE DispatchedIdsFrom(_, _, _)
DispatchedIdsFrom(client, cfg, starts) ==
  IF starts = <<>> THEN <<>>
  ELSE LET batchRequests ==
             GeneratedRequests(client, BatchSize(cfg, Head(starts)))
       IN  [j \in DOMAIN batchRequests |-> batchRequests[j].id]
             \o DispatchedIdsFrom(client, cfg, Tail(starts))

DispatchedIds(client, cfg) ==
  DispatchedIdsFrom(client, cfg, BatchStarts(cfg))

\* the configurations of the unary dispatch loop
DispatchConfigs ==
  [numRequests : 0..MaxRequests, concurrency : 1..MaxConcurrency]

\* ------------------------------------------- the dashboard's runTest
\* the endpoints of the Java backend runTest posts to, in the order of the
\* promises array: test-grpc first, then test-http
JavaEndpoints(protocols) ==
  (IF Includes(protocols, "grpc") THEN <<"test-grpc">> ELSE <<>>)
    \o (IF Includes(protocols, "http") THEN <<"test-http">> ELSE <<>>)

\* results.forEach((result, index) =>
\*   transformedResults[config.protocols[index]] = {...}): each entry
\* keeps the endpoint its data came from
RECURSIVE TransformedFrom(_, _, _, _)
TransformedFrom(map, protocols, endpoints, index) ==
  IF index > Len(endpoints) THEN map
  ELSE TransformedFrom(
         [q \in DOMAIN map \cup {protocols[index]} |->
            IF q = protocols[index] THEN [data |-> endpoints[index]]
            ELSE map[q]],
         protocols, endpoints, index + 1)

TransformedResults(protocols) ==
  TransformedFrom(EmptyMap, protocols, JavaEndpoints(protocols), 1)

\* the protocol lists the dashboard submits
DashboardProtocolLists ==
  {<<>>, <<"grpc">>, <<"http">>, <<"grpc", "http">>, <<"http", "grpc">>}

\* the calls of the specification of single calls, before they are served
PendingCalls ==
  {[op |-> "POST /api/tests", body |-> body] : body \in SubmittedBodies}
    \cup {[op |-> "healthCheck", pc |-> "http", checks |-> InitialChecks,
           http |-> "pending", grpc |-> "pending", outcome |-> "pending"]}
    \cup {[op |-> "generateTestRequests", client |-> client, count |-> count,
            requestSize |-> requestSize]
             : client \in Protocols, count \in 0..MaxRequests,
               requestSize \in RequestSizes}
    \cup {[op |-> "performanceTest", useStreaming |-> TRUE, config |-> cfg]
             : cfg \in StreamingConfigs}
    \cup {[op |-> "dispatch", client |-> client, config |-> cfg]
             : client \in Protocols, cfg \in DispatchConfigs}
    \cup {[op |-> "runTest", backend |-> "java", protocols |-> protocols]
             : protocols \in DashboardProtocolLists}

\* a single call is about to be served
InitCalls ==
  /\ activeTests = <<>>
  /\ run = [t \in 1..MaxTests |->
              [pc |-> "unused", results |-> <<>>, outcome |-> "pending"]]
  /\ drv = [t \in 1..MaxTests |-> [p \in Protocols |-> IdleDriver]]
  /\ now = 1
  /\ shutdownOutcome = "none"
  /\ returned = [t \in 1..MaxTests |-> NoRecord]
  /\ call \in PendingCalls

\* POST /api/tests validates the submitted configuration
PostTestsValidates ==
  /\ call.op = "POST /api/tests"
  /\ "validatedConfig" \notin DOMAIN call
  /\ call' = [op |-> call.op, body |-> call.body,
              validatedConfig |-> ValidatedConfig(call.body)]
  /\ UNCHANGED <<activeTests, run, drv, now, shutdownOutcome, returned>>

\* healthCheck resumes after the HTTP health check settled and sends the
\* gRPC request
HttpCheckSettles ==
  /\ call.op = "healthCheck"
  /\ call.pc = "http"
  /\ \E ok \in BOOLEAN, body \in HealthBodies :
        call' = [call EXCEPT !.pc = "grpc",
                             !.http = IF ok THEN "resolved" ELSE "rejected",
                             !.checks = HttpChecked(call.checks, ok, body)]
  /\ UNCHANGED <<activeTests, run, drv, now, shutdownOutcome, returned>>

\* healthCheck resumes after the gRPC request settled and returns checks
GrpcCheckSettles ==
  /\ call.op = "healthCheck"
  /\ call.pc = "grpc"
  /\ \E ok \in BOOLEAN, clientDuration \in 0..MaxClock :
        call' = [call EXCEPT !.pc = "returned",
                             !.grpc = IF ok THEN "resolved" ELSE "rejected",
                             !.checks = GrpcChecked(call.checks, ok,
                                                    clientDuration),
                             !.outcome = "resolved"]
  /\ UNCHANGED <<activeTests, run, drv, now, shutdownOutcome, returned>>

\* generateTestRequests returns the requests and the payload they refer to
GenerateTestRequestsReturns ==
  /\ call.op = "generateTestRequests"
  /\ "requests" \notin DOMAIN call
  /\ call' = [op |-> call.op, client |-> call.client, count |-> call.count,
              requestSize |-> call.requestSize,
              requests |-> GeneratedRequests(call.client, call.count),
              allocated |-> PayloadOf(call.client, call.requestSize),
              jsonString |-> JsonString(call.requestSize)]
  /\ UNCHANGED <<activeTests, run, drv, now, shutdownOutcome, returned>>

\* a streaming performanceTest whose streams all ended returns
StreamingTestReturns ==
  /\ call.op = "performanceTest"
  /\ "result" \notin DOMAIN call
  /\ call' = [op |-> call.op, useStreaming |-> call.useStreaming,
              config |-> call.config,
              written |-> SumSeq(StreamBatches(call.config)),
              result |-> StreamingResult(call.config)]
  /\ UNCHANGED <<activeTests, run, drv, now, shutdownOutcome, returned>>

\* runPerformanceComparison for protocols ['grpc'] resumes after the
\* streaming performanceTest returned: the result is pushed and stored
StreamingResultStored ==
  /\ call.op = "performanceTest"
  /\ "result" \in DOMAIN call
  /\ "stored" \notin DOMAIN call
  /\ call' = [op |-> call.op, useStreaming |-> call.useStreaming,
              config |-> call.config, written |-> call.written,
              result |-> call.result,
              stored |-> StoreResults(EmptyMap,
                                      <<ResultEntry("grpc", call.result)>>)]
  /\ UNCHANGED <<activeTests, run, drv, now, shutdownOutcome, returned>>

\* the dispatch loop of a unary performanceTest has handed out its requests
RequestsDispatched ==
  /\ call.op = "dispatch"
  /\ "ids" \notin DOMAIN call
  /\ call' = [op |-> call.op, client |-> call.client, config |-> call.config,
              ids |-> DispatchedIds(call.client, call.config)]
  /\ UNCHANGED <<activeTests, run, drv, now, shutdownOutcome, returned>>

\* runTest for the Java backend resumes after both posts were answered
RunTestReturns ==
  /\ call.op = "runTest"
  /\ "results" \notin DOMAIN call
  /\ call' = [op |-> call.op, backend |-> call.backend,
              protocols |-> call.protocols,
              results |-> TransformedResults(call.protocols)]
  /\ UNCHANGED <<activeTests, run, drv, now, shutdownOutcome, returned>>

NextCalls ==
  \/ PostTestsValidates
  \/ RunTestReturns
  \/ RequestsDispatched
  \/ StreamingResultStored
  \/ StreamingTestReturns
  \/ GenerateTestRequestsReturns
  \/ HttpCheckSettles
  \/ GrpcCheckSettles

SpecCalls == InitCalls /\ [][NextCalls]_vars

\* ------------------------------------- runs without a gRPC client
\* the message of the error initialize() throws
InitializeMessage == "grpc client initialization failed"

\* performanceTest of the gRPC driver up to its first await while
\* initialize() throws: the client is not initialized, so processData
\* calls initialize() for each request it is handed and rejects with its
\* error; no request is sent
DispatchAllUninitialized(cfg) ==
  [pc |-> "awaiting", startTime |-> now,
   req |-> [i \in 1..Dispatched(cfg) |->
              [state |-> "failed", clientDuration |-> 0]],
   k |-> 1, collected |-> <<>>, result |-> NoResult]

\* the number of times initialize() is called by that performanceTest
InitializeCalls(cfg) == Len(DispatchAllUninitialized(cfg).req)

\* runPerformanceComparison through its gRPC stage while initialize()
\* throws, up to its next suspension point
AdvanceUninitialized(w) ==
  LET cfg == w.test.config
      d == ResumeDriver("grpc", cfg, DispatchAllUninitialized(cfg))
      w1 == [w EXCEPT !.pc = "grpc", !.drv["grpc"] = d]
  IN  IF d.pc = "threw"
        THEN Advance(ProtocolFailed(w1, "grpc", InitializeMessage),
                     NextStage(cfg, "grpc"))
        ELSE Advance(ProtocolSucceeded(w1, "grpc", d.result),
                     NextStage(cfg, "grpc"))

\* the configurations of these runs: unary mode, a list of protocols
UninitializedConfigs ==
  [numRequests : 0..MaxRequests,
   concurrency : 1..MaxConcurrency,
   protocols   : ProtocolLists]

\* the orchestrator after initialize() caught the failure of
\* grpcClient.initialize(): no run yet, no call of initialize() by a run
InitUninitialized ==
  /\ activeTests = <<>>
  /\ run = [t \in 1..MaxTests |->
              [pc |-> "unused", results |-> <<>>, outcome |-> "pending"]]
  /\ drv = [t \in 1..MaxTests |-> [p \in Protocols |-> IdleDriver]]
  /\ now = 1
  /\ shutdownOutcome = "none"
  /\ returned = [t \in 1..MaxTests |-> NoRecord]
  /\ call = [op |-> "initialize", initialized |-> FALSE, calls |-> 0]

\* runPerformanceComparison(cfg) on that orchestrator, up to its first
\* suspension point
RunUninitialized(cfg) ==
  LET t == 1
      test == [testId |-> t, startTime |-> now, endTime |-> Null,
               status |-> "running", config |-> cfg, results |-> EmptyMap]
      w == [test |-> test, pc |-> "start", results |-> <<>>,
            outcome |-> "pending", drv |-> [p \in Protocols |-> IdleDriver],
            returned |-> NoRecord]
      grpc == NextStage(cfg, "start") = "grpc"
  IN  /\ activeTests = <<>>
      /\ Install(t,
                 IF grpc THEN AdvanceUninitialized(w)
                 ELSE Advance(w, NextStage(cfg, "start")),
                 Append(activeTests, test))
      /\ call' = [call EXCEPT !.calls =
                    call.calls + IF grpc THEN InitializeCalls(cfg) ELSE 0]
      /\ UNCHANGED <<now, shutdownOutcome>>

NextUninitialized ==
  \/ \E cfg \in UninitializedConfigs : RunUninitialized(cfg)
  \/ \E t \in DOMAIN activeTests, i \in 1..MaxRequests, ok \in BOOLEAN :
        RequestSettles(t, "http", i, ok)
  \/ \E t \in DOMAIN activeTests : DelayElapsed(t)
  \/ Tick

SpecUninitialized == InitUninitialized /\ [][NextUninitialized]_vars

\* ------------------------------------------------- the HTTP client's pool
\* maxSockets of an HttpClient built without an override
DefaultMaxSockets == 50

\* new HttpClient(maxSocketsOverride): maxSockets is
\* maxSocketsOverride || 50
HttpClientOf(maxSocketsOverride) ==
  [maxSockets |-> IF maxSocketsOverride # 0 THEN maxSocketsOverride
                  ELSE DefaultMaxSockets]

\* this.httpClient when a run with configuration cfg reaches its HTTP
\* stage: replaced when cfg.httpMaxSockets is a finite number, kept
\* otherwise
HttpClientFor(cfg, httpClient) ==
  IF "httpMaxSockets" \in DOMAIN cfg
    THEN HttpClientOf(cfg.httpMaxSockets)
    ELSE httpClient

\* the overrides a run may give: the least and the greatest the API lets
\* through, and the default itself
SocketOverrides == {1, DefaultMaxSockets, 200}

\* the configurations of these runs: one HTTP request, with or without an
\* override
SocketConfigs ==
  [numRequests : {1}, concurrency : {1}, protocols : {<<"http">>}]
    \cup [numRequests : {1}, concurrency : {1}, protocols : {<<"http">>},
          httpMaxSockets : SocketOverrides]

\* a fresh orchestrator: this.httpClient = new HttpClient(); used lists,
\* run by run, maxSockets of the client the run's HTTP stage called
InitSockets ==
  /\ activeTests = <<>>
  /\ run = [t \in 1..MaxTests |->
              [pc |-> "unused", results |-> <<>>, outcome |-> "pending"]]
  /\ drv = [t \in 1..MaxTests |-> [p \in Protocols |-> IdleDriver]]
  /\ now = 1
  /\ shutdownOutcome = "none"
  /\ returned = [t \in 1..MaxTests |-> NoRecord]
  /\ call = [op |-> "httpClient", httpClient |-> HttpClientOf(0),
             used |-> <<>>]

\* runPerformanceComparison(cfg) for protocols ['http'] up to the await of
\* httpClient.performanceTest
RunWithHttpClient(cfg) ==
  LET t == Len(activeTests) + 1
      test == [testId |-> t, startTime |-> now, endTime |-> Null,
               status |-> "running", config |-> cfg, results |-> EmptyMap]
      w == [test |-> test, pc |-> "start", results |-> <<>>,
            outcome |-> "pending", drv |-> [p \in Protocols |-> IdleDriver],
            returned |-> NoRecord]
      httpClient == HttpClientFor(cfg, call.httpClient)
  IN  /\ t <= MaxTests
      /\ Install(t, Advance(w, NextStage(cfg, "start")),
                 Append(activeTests, test))
      /\ call' = [call EXCEPT !.httpClient = httpClient,
                              !.used = Append(call.used,
                                              httpClient.maxSockets)]
      /\ UNCHANGED <<now, shutdownOutcome>>

NextSockets ==
  \/ \E cfg \in SocketConfigs : RunWithHttpClient(cfg)
  \/ \E t \in DOMAIN activeTests, ok \in BOOLEAN :
        RequestSettles(t, "http", 1, ok)

SpecSockets == InitSockets /\ [][NextSockets]_vars

\* ------------------------------------------------------ processDataStream
\* resolve(value) and reject() of the promise processDataStream returns:
\* they settle a pending promise and do nothing to a settled one
Resolve(promise, value) ==
  IF promise.state = "pending"
  THEN [state |-> "resolved", value |-> value]
  ELSE promise

Reject(promise) ==
  IF promise.state = "pending" THEN [state |-> "rejected"] ELSE promise

\* if (... && responsesReceived === requests.length && !streamEnded)
\* { streamEnded = true; call.end() }: the stream with the test applied
EndIfAllReceived(c) ==
  IF c.responsesReceived = c.requests /\ ~c.streamEnded
  THEN [c EXCEPT !.streamEnded = TRUE, !.ended = c.ended + 1]
  ELSE c

\* an 'error' listener that only logs
OnErrorLogged(promise) == promise

\* the 'error' listener
OnError(promise) == Reject(promise)

\* the call after the executor ran: the listeners are set, all requests are
\* written, and the stream is ended at once when there is nothing to wait
\* for.  answered counts the responses the server has sent, status is what
\* the server or the transport closed the stream with, events is what the
\* client's stream has emitted last
StreamOf(requests) ==
  EndIfAllReceived(
    [op |-> "processDataStream", requests |-> requests,
     startTime |-> now, responsesReceived |-> 0, streamEnded |-> FALSE,
     ended |-> 0, answered |-> 0, status |-> "none", events |-> "open",
     promise |-> [state |-> "pending"]])

\* the numbers of requests of a stream: the batches performanceTest hands
\* to processDataStream, and the empty list
StreamLengths ==
  {0} \cup UNION {Range(StreamBatches(cfg)) : cfg \in StreamingConfigs}

\* processDataStream(requests) was called at time 1 and its executor ran
InitStream ==
  /\ activeTests = <<>>
  /\ run = [t \in 1..MaxTests |->
              [pc |-> "unused", results |-> <<>>, outcome |-> "pending"]]
  /\ drv = [t \in 1..MaxTests |-> [p \in Protocols |-> IdleDriver]]
  /\ now = 1
  /\ shutdownOutcome = "none"
  /\ returned = [t \in 1..MaxTests |-> NoRecord]
  /\ \E requests \in StreamLengths : call = StreamOf(requests)

\* the server's onNext handles the next request and sends its response
ServerAnswers ==
  /\ call.status = "none"
  /\ call.answered < call.requests
  /\ call' = [call EXCEPT !.answered = call.answered + 1]
  /\ UNCHANGED <<activeTests, run, drv, now, shutdownOutcome, returned>>

\* the client has half-closed the stream: the server's onCompleted
\* completes it
ServerCompletes ==
  /\ call.status = "none"
  /\ call.ended > 0
  /\ call' = [call EXCEPT !.status = "OK"]
  /\ UNCHANGED <<activeTests, run, drv, now, shutdownOutcome, returned>>

\* the 'data' listener takes the next response
Data ==
  /\ call.events # "end"
  /\ call.responsesReceived < call.answered
  /\ call' = EndIfAllReceived(
               [call EXCEPT !.responsesReceived = call.responsesReceived + 1])
  /\ UNCHANGED <<activeTests, run, drv, now, shutdownOutcome, returned>>

\* the stream fails, by the server's onError or in the transport: the
\* client's stream emits 'error' and the listener rejects
Error ==
  /\ call.status = "none"
  /\ call' = [call EXCEPT !.status = "ERROR", !.events = "error",
                          !.promise = OnError(call.promise)]
  /\ UNCHANGED <<activeTests, run, drv, now, shutdownOutcome, returned>>

\* the client's stream emits 'end' and the listener resolves: after the
\* server completed and every response was taken, or after the failure
End ==
  /\ call.events # "end"
  /\ \/ call.status = "OK" /\ call.responsesReceived = call.answered
     \/ call.events = "error"
  /\ call' = [call EXCEPT
       !.events = "end",
       !.promise = Resolve(call.promise,
                           [responses |-> call.responsesReceived,
                            clientDuration |-> now - call.startTime,
                            protocol |-> "grpc-stream"])]
  /\ UNCHANGED <<activeTests, run, drv, now, shutdownOutcome, returned>>

NextStream ==
  \/ ServerAnswers
  \/ ServerCompletes
  \/ Data
  \/ Error
  \/ End
  \/ Tick

SpecStream == InitStream /\ [][NextStream]_vars

\* ------------------------------------- the Java client's performanceTest
\* a pool that starts a thread for every task
PoolHasRoomCached(threads, concurrency) == TRUE

\* Executors.newFixedThreadPool(concurrency): submit starts a new thread
\* while fewer than concurrency threads exist, and queues the task otherwise
PoolHasRoom(threads, concurrency) == threads < concurrency

\* the worker threads that are inside processData
InCall(c) == {w \in DOMAIN c.worker : c.worker[w] = "call"}

\* performanceTest(concurrency, totalRequests, ...) of a strategy after the
\* latch, the counters and the pool were created.  worker gives each pool
\* thread's position in its task: "none" not started, "idle" waiting for a
\* task, "call" in processData, "catch" and "finally" in those blocks.
\* succeeded and failed count the calls that returned and that threw.
JavaTestOf(protocol, concurrency, totalRequests) ==
  [op |-> "performanceTest(java)", protocol |-> protocol,
   concurrency |-> concurrency, totalRequests |-> totalRequests,
   pc |-> IF totalRequests = 0 THEN "awaiting" ELSE "submitting",
   submitted |-> 0, threads |-> 0, queue |-> 0,
   worker |-> [w \in 1..totalRequests |-> "none"],
   latch |-> totalRequests, errorCount |-> 0,
   succeeded |-> 0, failed |-> 0]

InitJava ==
  /\ activeTests = <<>>
  /\ run = [t \in 1..MaxTests |->
              [pc |-> "unused", results |-> <<>>, outcome |-> "pending"]]
  /\ drv = [t \in 1..MaxTests |-> [p \in Protocols |-> IdleDriver]]
  /\ now = 1
  /\ shutdownOutcome = "none"
  /\ returned = [t \in 1..MaxTests |-> NoRecord]
  /\ \E protocol \in {"gRPC", "HTTP-Blocking"},
        concurrency \in 1..MaxConcurrency,
        totalRequests \in 0..(MaxRequests + 1) :
        call = JavaTestOf(protocol, concurrency, totalRequests)

\* executor.submit(task) in the loop of the calling thread
Submit ==
  /\ call.pc = "submitting"
  /\ LET room == PoolHasRoom(call.threads, call.concurrency)
         submitted == call.submitted + 1
     IN  call' = [call EXCEPT
           !.submitted = submitted,
           !.pc = IF submitted = call.totalRequests
                    THEN "awaiting" ELSE "submitting",
           !.threads = IF room THEN call.threads + 1 ELSE call.threads,
           !.worker = IF room
                        THEN [call.worker EXCEPT ![call.threads + 1] = "call"]
                        ELSE call.worker,
           !.queue = IF room THEN call.queue ELSE call.queue + 1]
  /\ UNCHANGED <<activeTests, run, drv, now, shutdownOutcome, returned>>

\* an idle pool thread takes the next task of the queue
Take(w) ==
  /\ call.worker[w] = "idle"
  /\ call.queue > 0
  /\ call' = [call EXCEPT !.worker[w] = "call", !.queue = call.queue - 1]
  /\ UNCHANGED <<activeTests, run, drv, now, shutdownOutcome, returned>>

\* processData returns (ok) or throws in thread w
CallEnds(w, ok) ==
  /\ call.worker[w] = "call"
  /\ call' = IF ok
               THEN [call EXCEPT !.worker[w] = "finally",
                                 !.succeeded = call.succeeded + 1]
               ELSE [call EXCEPT !.worker[w] = "catch",
                                 !.failed = call.failed + 1]
  /\ UNCHANGED <<activeTests, run, drv, now, shutdownOutcome, returned>>

\* catch (Exception e) { errorCount.incrementAndGet(); }
Catch(w) ==
  /\ call.worker[w] = "catch"
  /\ call' = [call EXCEPT !.worker[w] = "finally",
                          !.errorCount = call.errorCount + 1]
  /\ UNCHANGED <<activeTests, run, drv, now, shutdownOutcome, returned>>

\* finally { latch.countDown(); }
Finally(w) ==
  /\ call.worker[w] = "finally"
  /\ call' = [call EXCEPT !.worker[w] = "idle", !.latch = call.latch - 1]
  /\ UNCHANGED <<activeTests, run, drv, now, shutdownOutcome, returned>>

\* latch.await() returns and performanceTest builds its result
JavaTestReturns ==
  /\ call.pc = "awaiting"
  /\ call.latch = 0
  /\ call' = [f \in DOMAIN call \cup {"result"} |->
               IF f = "pc" THEN "returned"
               ELSE IF f = "result"
                 THEN [protocol |-> call.protocol,
                       totalRequests |-> call.totalRequests,
                       errorCount |-> call.errorCount]
               ELSE call[f]]
  /\ UNCHANGED <<activeTests, run, drv, now, shutdownOutcome, returned>>

NextJava ==
  \/ Submit
  \/ \E w \in DOMAIN call.worker : Take(w)
  \/ \E w \in DOMAIN call.worker, ok \in BOOLEAN : CallEnds(w, ok)
  \/ \E w \in DOMAIN call.worker : Catch(w)
  \/ \E w \in DOMAIN call.worker : Finally(w)
  \/ JavaTestReturns

SpecJava == InitJava /\ [][NextJava]_vars

\* ------------------------------------------------------------- properties
Started == {t \in 1..MaxTests : run[t].pc # "unused"}

Other(p) == IF p = "grpc" THEN "http" ELSE "grpc"

\* C1: in unary mode, with numRequests >= 1 and concurrency >= 1, the
\* number of requests of a driver's performanceTest that are dispatched
\* and not yet settled never exceeds min(concurrency, numRequests)
C1_InFlightBounded ==
  \A t \in DOMAIN activeTests, p \in Protocols :
    activeTests[t].config.numRequests >= 1 =>
      Cardinality(InFlight(drv[t][p])) <=
        Min(activeTests[t].config.concurrency, activeTests[t].config.numRequests)

\* C2: no request of a later batch is dispatched while a request of an
\* earlier batch of the same performanceTest is still unsettled
C2_BatchesSequential ==
  \A t \in DOMAIN activeTests, p \in Protocols :
    drv[t][p].pc # "idle" =>
      \A k1, k2 \in DOMAIN BatchStarts(activeTests[t].config) :
        (k1 < k2 /\ \E j \in BatchMembers(activeTests[t].config, k2) :
                       j \in DOMAIN drv[t][p].req)
          => \A i \in BatchMembers(activeTests[t].config, k1) :
               drv[t][p].req[i].state # "inflight"

\* C3: once the first HTTP request of a run is dispatched, every gRPC
\* request of that run has settled
C3_HttpAfterGrpcSettled ==
  \A t \in DOMAIN activeTests :
    drv[t]["http"].req # <<>> => InFlight(drv[t]["grpc"]) = {}

\* C4: a failing request does not make a driver's performanceTest throw
C4_FailureDoesNotThrow ==
  \A t \in DOMAIN activeTests, p \in Protocols : drv[t][p].pc # "threw"

\* C5: every ProtocolResult stored in a TestRecord has
\* successfulRequests + failedRequests = totalRequests
C5_OutcomeConservation ==
  \A t \in DOMAIN activeTests :
    \A q \in DOMAIN activeTests[t].results :
      LET e == activeTests[t].results[q]
      IN  /\ {"totalRequests", "successfulRequests", "failedRequests"}
               \subseteq DOMAIN e
          /\ e.successfulRequests + e.failedRequests = e.totalRequests

\* C6: when one protocol's driver rejects and the other's returns, the
\* call of runPerformanceComparison resolves, the record it resolves with
\* has status completed, and that record's entry for the other protocol
\* carries the values the driver returned
C6_FailureIsolation ==
  \A t \in DOMAIN activeTests, p \in Protocols :
    (drv[t][p].pc = "threw" /\ drv[t][Other(p)].pc = "returned") =>
      /\ run[t].outcome = "resolved"
      /\ returned[t].status = "completed"
      /\ Other(p) \in DOMAIN returned[t].results
      /\ LET e == returned[t].results[Other(p)]
             r == drv[t][Other(p)].result
         IN  /\ {"protocol", "totalRequests", "successfulRequests",
                 "averageLatency", "throughput", "totalDuration"}
                  \subseteq DOMAIN e
             /\ e.protocol = Other(p)
             /\ e.totalRequests = r.totalRequests
             /\ e.successfulRequests = r.successfulRequests
             /\ e.averageLatency = r.averageLatency
             /\ e.throughput = r.throughput
             /\ e.totalDuration = r.totalDuration

C6_Witness ==
  \E t \in DOMAIN activeTests :
    /\ drv[t]["http"].pc = "threw"
    /\ drv[t]["grpc"].pc = "returned"
    /\ drv[t]["grpc"].result.successfulRequests = 2
    /\ run[t].outcome = "resolved"

\* C7: when a protocol's run failed, the finished record's results entry
\* for that protocol has its error field set to the failure message
C7_ErrorFieldStored ==
  \A t \in DOMAIN activeTests, p \in Protocols :
    (drv[t][p].pc = "threw" /\ run[t].outcome = "resolved") =>
      /\ p \in DOMAIN GetTestStatus(t).results
      /\ "error" \in DOMAIN GetTestStatus(t).results[p]
      /\ GetTestStatus(t).results[p].error = ErrorMessage(p)

\* C8: once a record's status is completed, failed or interrupted, its
\* status and endTime never change again
C8_TerminalStatusIsFinal ==
  [][\A t \in DOMAIN activeTests :
       activeTests[t].status # "running" =>
         /\ activeTests'[t].status = activeTests[t].status
         /\ activeTests'[t].endTime = activeTests[t].endTime]_vars

\* C9: a call of shutdown leaves no record running: every record that was
\* running is interrupted with endTime set to the time of the call, every
\* other record is unchanged, and the call resolves whether or not closing
\* the gRPC client succeeded
C9_ShutdownInterruptsRunning ==
  [][(\E closeOk \in BOOLEAN : Shutdown(closeOk)) =>
       /\ shutdownOutcome' = "resolved"
       /\ DOMAIN activeTests' = DOMAIN activeTests
       /\ \A t \in DOMAIN activeTests :
            /\ activeTests'[t].status # "running"
            /\ activeTests[t].status = "running" =>
                 /\ activeTests'[t].status = "interrupted"
                 /\ activeTests'[t].endTime = now
                 /\ activeTests'[t].endTime # Null
            /\ activeTests[t].status # "running" =>
                 activeTests'[t] = activeTests[t]]_vars

C9_Witness ==
  /\ shutdownOutcome = "resolved"
  /\ \E t1, t2 \in DOMAIN activeTests :
       /\ activeTests[t1].status = "interrupted"
       /\ activeTests[t1].endTime > activeTests[t1].startTime
       /\ activeTests[t2].status = "completed"
       /\ activeTests[t2].endTime < activeTests[t1].endTime

\* C10: every test ever started is in the registry under its id, the
\* record a run resolved with is the one getTestStatus returns, and
\* getAllTests lists every started test exactly once, newest first
C10_RegistryKeepsEveryTest ==
  /\ \A t \in Started : GetTestStatus(t) # NoRecord /\ GetTestStatus(t).testId = t
  /\ \A t \in Started : run[t].outcome = "resolved" => returned[t] = GetTestStatus(t)
  /\ LET all == GetAllTests
     IN  /\ Len(all) = Cardinality(Started)
         /\ \A t \in Started :
              Cardinality({i \in DOMAIN all : all[i].testId = t}) = 1
         /\ \A i, j \in DOMAIN all :
              i < j => all[i].startTime >= all[j].startTime

C10_Witness ==
  /\ Len(activeTests) = 2
  /\ activeTests[1].startTime < activeTests[2].startTime
  /\ GetAllTests[1].testId = 2
  /\ \E t \in Started : run[t].outcome = "rejected"
  /\ \E t \in Started : run[t].outcome = "resolved"

\* C11: a lookup by id fails exactly when the registry holds no record
\* under the id; then the API answers 404 with the message naming the id,
\* otherwise 200 with the record; the lookup leaves the registry unchanged
C11_LookupFailsIffAbsent ==
  [][(call' # call /\ call'.op = "GET /api/tests/:testId") =>
       LET held == {i \in 1..Len(activeTests) :
                      activeTests[i].testId = call'.testId}
       IN  /\ activeTests' = activeTests
           /\ call'.status = (IF held = {} THEN 404 ELSE 200)
           /\ held = {} =>
                 call'.message = "Test " \o ToString(call'.testId)
                                   \o " not found"
           /\ held # {} =>
                 \A i \in held : call'.body = activeTests[i]]_vars

C11_Witness ==
  /\ call.op = "GET /api/tests/:testId"
  /\ call.status = 404
  /\ activeTests # <<>>
  /\ \A i \in 1..Len(activeTests) : activeTests[i].testId # call.testId

\* C12: a run whose protocol list is empty, or names no known protocol,
\* calls no driver and resolves at once with a completed record whose
\* endTime is set and whose results map is empty
C12_NoProtocolCompletesEmpty ==
  \A t \in Started :
    LET cfg == activeTests[t].config
    IN  (cfg.protocols # NotAnArray
           /\ \A i \in 1..Len(cfg.protocols) :
                 cfg.protocols[i] \notin {"grpc", "http"}) =>
          /\ \A p \in Protocols : drv[t][p].pc = "idle"
          /\ run[t].outcome = "resolved"
          /\ returned[t].status = "completed"
          /\ returned[t].endTime # Null
          /\ returned[t].results = EmptyMap
          /\ activeTests[t] = returned[t]

C12_Witness ==
  \E t \in Started :
    /\ activeTests[t].config.protocols = <<"invalid-protocol">>
    /\ activeTests[t].config.numRequests >= 1
    /\ returned[t].status = "completed"
    /\ shutdownOutcome # "none"

\* calculateComparisonMetrics has returned
MetricsReturned ==
  call.op = "calculateComparisonMetrics" /\ "metrics" \in DOMAIN call

\* the number is neither NaN nor infinite
Finite(x) == x[2] # 0

\* every result of the list reports a finite throughput and a finite
\* averageLatency
AllFinite(results) ==
  \A i \in 1..Len(results) :
    /\ {"throughput", "averageLatency"} \subseteq DOMAIN results[i]
    /\ Finite(results[i].throughput)
    /\ Finite(results[i].averageLatency)

NonFiniteText == {"NaN", "Infinity", "-Infinity"}

\* C13: when the baseline's throughput or averageLatency is 0 (all
\* reported values being finite), no ratio and no improvement of the
\* comparison is NaN or infinite
C13_ZeroBaselineGuarded ==
  (/\ MetricsReturned
   /\ call.results # <<>>
   /\ AllFinite(call.results)
   /\ call.results[1].protocol = "grpc"
   /\ \/ call.results[1].throughput = Zero
      \/ call.results[1].averageLatency = Zero) =>
    \A q \in DOMAIN call.metrics.throughputComparison :
      /\ Finite(call.metrics.throughputComparison[q].ratio)
      /\ call.metrics.throughputComparison[q].improvement
           \notin NonFiniteText
      /\ Finite(call.metrics.latencyComparison[q].ratio)
      /\ call.metrics.latencyComparison[q].improvement \notin NonFiniteText

\* C14: the summary names the result with the largest throughput and the
\* result with the smallest averageLatency, the first such result of the
\* list when several tie (all reported values being finite)
C14_ArgMaxFirstOnTies ==
  (MetricsReturned /\ call.results # <<>> /\ AllFinite(call.results)) =>
    LET rs == call.results
        best == CHOOSE i \in 1..Len(rs) :
                  /\ \A j \in 1..Len(rs) :
                       ~Greater(rs[j].throughput, rs[i].throughput)
                  /\ \A j \in 1..(i - 1) : rs[j].throughput # rs[i].throughput
        low == CHOOSE i \in 1..Len(rs) :
                 /\ \A j \in 1..Len(rs) :
                      ~Less(rs[j].averageLatency, rs[i].averageLatency)
                 /\ \A j \in 1..(i - 1) :
                      rs[j].averageLatency # rs[i].averageLatency
    IN  /\ call.metrics.summary.fastestProtocol = rs[best].protocol
        /\ call.metrics.summary.maxThroughput = rs[best].throughput
        /\ call.metrics.summary.lowestLatencyProtocol = rs[low].protocol
        /\ call.metrics.summary.minLatency = rs[low].averageLatency

\* C15: every entry of the throughput and the latency comparison is
\* relative to the baseline: the gRPC result if the list has one, else the
\* first result of the list
C15_BaselineIsGrpcElseFirst ==
  (MetricsReturned /\ call.results # <<>>) =>
    LET rs == call.results
        expected == IF \E i \in 1..Len(rs) : rs[i].protocol = "grpc"
                      THEN "grpc" ELSE rs[1].protocol
        named == {rs[i].protocol : i \in 1..Len(rs)}
    IN  /\ DOMAIN call.metrics.throughputComparison = named
        /\ DOMAIN call.metrics.latencyComparison = named
        /\ \A q \in named :
             /\ call.metrics.throughputComparison[q].relativeTo = expected
             /\ call.metrics.latencyComparison[q].relativeTo = expected

C15_Witness ==
  /\ MetricsReturned
  /\ Len(call.results) = 2
  /\ call.results[1].protocol = "http"
  /\ call.results[2].protocol = "grpc"
  /\ call.metrics.throughputComparison["http"].relativeTo = "grpc"

\* C16: a result whose throughput equals the baseline's, which is not
\* zero, has throughput ratio 1 and improvement 0 (the list naming each
\* protocol once)
C16_EqualThroughputRatioOne ==
  (/\ MetricsReturned
   /\ call.results # <<>>
   /\ \A i, j \in 1..Len(call.results) :
        i # j => call.results[i].protocol # call.results[j].protocol) =>
    LET rs == call.results
        a == IF \E i \in 1..Len(rs) : rs[i].protocol = "grpc"
               THEN CHOOSE i \in 1..Len(rs) : rs[i].protocol = "grpc"
               ELSE 1
    IN  \A b \in 1..Len(rs) :
          (/\ "throughput" \in DOMAIN rs[a]
           /\ "throughput" \in DOMAIN rs[b]
           /\ rs[a].throughput \notin {Zero, NaN}
           /\ rs[b].throughput = rs[a].throughput) =>
            /\ call.metrics.throughputComparison[rs[b].protocol].ratio
                 = <<1, 1>>
            /\ call.metrics.throughputComparison[rs[b].protocol].improvement
                 = "0.00"

\* C17: for an empty result list the function returns empty throughput
\* and latency comparisons and a summary with no fastest and no
\* lowest-latency protocol, maxThroughput 0 and minLatency 0
C17_EmptyListSummary ==
  (MetricsReturned /\ call.results = <<>>) =>
    /\ "error" \notin DOMAIN call.metrics
    /\ call.metrics.throughputComparison = EmptyMap
    /\ call.metrics.latencyComparison = EmptyMap
    /\ "fastestProtocol" \notin DOMAIN call.metrics.summary
    /\ "lowestLatencyProtocol" \notin DOMAIN call.metrics.summary
    /\ call.metrics.summary.maxThroughput = Zero
    /\ call.metrics.summary.minLatency = Zero

C17_Witness == MetricsReturned /\ call.results = <<>>

\* the driver calls of performanceTest that have returned a result; every
\* request of such a call succeeded
ReturnedDrivers ==
  {tp \in Started \X Protocols : drv[tp[1]][tp[2]].pc = "returned"}

\* C18: when all N requests of a driver's performanceTest succeed, the
\* result reports successfulRequests = N, whatever latency each request
\* measured
C18_AllSucceededAreCounted ==
  \A tp \in ReturnedDrivers :
    LET d == drv[tp[1]][tp[2]]
    IN  (\A i \in DOMAIN d.req : d.req[i].state = "ok") =>
          d.result.successfulRequests = activeTests[tp[1]].config.numRequests

\* C19: the averageLatency a driver reports is the mean of the latencies
\* its requests measured, and 0 when there is none
C19_AverageLatencyIsMeanOrZero ==
  \A tp \in ReturnedDrivers :
    LET d == drv[tp[1]][tp[2]]
        latencies == [i \in DOMAIN d.req |-> d.req[i].clientDuration]
    IN  d.result.averageLatency =
          (IF Len(latencies) = 0 THEN <<0, 1>>
           ELSE Norm(SumSeq(latencies), Len(latencies)))

\* C20: the throughput a driver reports is successfulRequests /
\* totalDuration * 1000, and 0 when totalDuration is 0
C20_ThroughputZeroOnZeroDuration ==
  \A tp \in ReturnedDrivers :
    LET r == drv[tp[1]][tp[2]].result
    IN  r.throughput =
          (IF r.totalDuration = 0 THEN <<0, 1>>
           ELSE Norm(r.successfulRequests * 1000, r.totalDuration))

\* C21: whatever numRequests and concurrency reach the drivers, no call of
\* performanceTest stays in its batch-building loop forever
C21_NoDriverLoopsForever ==
  \A t \in Started : \A p \in Protocols : drv[t][p].pc # "looping"

\* the runs of a configuration with numRequests = 0 and a protocol list
ZeroRequestRuns ==
  {t \in Started : /\ activeTests[t].config.numRequests = 0
                   /\ activeTests[t].config.protocols # NotAnArray}

\* C22 as stated: a run with numRequests = 0 is over at once, with status
\* 'completed' and an empty results map
C22_ZeroRequestsEmptyResults ==
  \A t \in ZeroRequestRuns :
    /\ run[t].pc = "done"
    /\ returned[t].status = "completed"
    /\ returned[t].results = EmptyMap

\* C22 amended: a run with numRequests = 0 dispatches no request and waits
\* for no response, only for the pause between the two protocols; it
\* resolves with status 'completed' and a results map that holds, for each
\* requested protocol, a summary with totalRequests 0 and
\* successfulRequests 0
C22_ZeroRequestsZeroCounts ==
  \A t \in ZeroRequestRuns :
    LET requested == {activeTests[t].config.protocols[i] :
                        i \in 1..Len(activeTests[t].config.protocols)}
                       \cap {"grpc", "http"}
    IN  /\ \A p \in Protocols : drv[t][p].req = <<>>
        /\ run[t].pc \in {"delay", "done"}
        /\ run[t].pc = "delay" => requested = {"grpc", "http"}
        /\ run[t].pc = "done" =>
              /\ run[t].outcome = "resolved"
              /\ returned[t].status = "completed"
              /\ DOMAIN returned[t].results = requested
              /\ \A q \in requested :
                    /\ returned[t].results[q].totalRequests = 0
                    /\ returned[t].results[q].successfulRequests = 0

C22_Witness ==
  \E t \in ZeroRequestRuns :
    /\ run[t].pc = "done"
    /\ DOMAIN returned[t].results = {"grpc", "http"}

\* C23: whatever numbers a client submits, the configuration POST
\* /api/tests passes on has numRequests in 1..10000, concurrency in 1..100
\* and requestSize and responseSize of at most 104857600
C23_ValidatedWithinLimits ==
  (call.op = "POST /api/tests" /\ "validatedConfig" \in DOMAIN call) =>
    /\ call.validatedConfig.numRequests \in 1..10000
    /\ call.validatedConfig.concurrency \in 1..100
    /\ call.validatedConfig.requestSize <= 104857600
    /\ call.validatedConfig.responseSize <= 104857600

\* the record of run t carries the id t, and once the run has resolved it
\* resolved with status 'completed' and, under each protocol whose driver
\* returned, the metrics that driver call returned
OwnRecord(t) ==
  /\ activeTests[t].testId = t
  /\ run[t].outcome = "resolved" =>
        /\ returned[t].testId = t
        /\ returned[t].status = "completed"
        /\ \A p \in Protocols :
              IF drv[t][p].pc = "returned"
                THEN /\ p \in DOMAIN returned[t].results
                     /\ \A f \in {"totalRequests", "successfulRequests",
                                   "totalDuration", "averageLatency",
                                   "throughput"} :
                           returned[t].results[p][f] = drv[t][p].result[f]
                ELSE drv[t][p].pc = "idle" =>
                       p \notin DOMAIN returned[t].results

\* C24: runs started concurrently each have their own id and record and
\* resolve 'completed' with the results of their own driver calls, and a
\* record changes only in a step of its own run or of shutdown
C24_ConcurrentRunsIsolated ==
  /\ [](\A t \in Started : OwnRecord(t))
  /\ [][\A u \in 1..Len(activeTests) :
          activeTests'[u] # activeTests[u] =>
            \/ \E p \in Protocols, i \in 1..MaxRequests, ok \in BOOLEAN :
                 RequestSettles(u, p, i, ok)
            \/ \E closeOk \in BOOLEAN : Shutdown(closeOk)]_vars

C24_Witness ==
  /\ Started = {1, 2}
  /\ run[1].outcome = "resolved"
  /\ run[2].outcome = "resolved"
  /\ activeTests[2].startTime < activeTests[1].endTime
  /\ activeTests[1].results # activeTests[2].results
  /\ activeTests[1].results # EmptyMap
  /\ activeTests[2].results # EmptyMap

\* the protocol result holds nothing but scalar metrics
ScalarMetricsOnly(entry) ==
  /\ DOMAIN entry \subseteq
        {"protocol", "totalRequests", "successfulRequests", "failedRequests",
         "averageLatency", "throughput", "totalDuration"}
  /\ \A f \in DOMAIN entry \ {"protocol", "averageLatency", "throughput"} :
        entry[f] \in Int

PayloadBytes ==
  IF call.client = "grpc" THEN call.allocated.bytes
  ELSE Base64Bytes(call.allocated)

C28_NoUnhandledRejection ==
  \A t \in Started, p \in Protocols :
    UnhandledRejections(activeTests[t].config, drv[t][p]) = {}

\* C29: in streaming mode the requests written over all streams of a run
\* number numRequests, and successfulRequests does not exceed totalRequests
C29_StreamsWriteNumRequests ==
  call.op = "performanceTest" /\ "result" \in DOMAIN call =>
    /\ call.written = call.config.numRequests
    /\ call.result.successfulRequests <= call.result.totalRequests

C31_ResultsShownWhileRunning ==
  \A t \in Started :
    run[t].pc \in {"grpc", "delay", "http"} /\ shutdownOutcome = "none" =>
      /\ GetTestStatus(t).status = "running"
      /\ \A k \in DOMAIN run[t].results :
            run[t].results[k].protocol \in DOMAIN GetTestStatus(t).results

\* C32: when the gRPC client cannot be initialized, a run that asks for
\* gRPC with at least one request attempts the initialization once, its
\* record gets an error entry for gRPC, and the HTTP run of the same
\* comparison still takes place
C32_InitializationFailsOncePerRun ==
  \A t \in Started :
    /\ Includes(activeTests[t].config.protocols, "grpc")
    /\ activeTests[t].config.numRequests >= 1
    =>
      /\ call.calls = 1
      /\ \A k \in DOMAIN run[t].results :
            run[t].results[k].protocol = "grpc" =>
              "error" \in DOMAIN run[t].results[k]
      /\ run[t].pc = "done" /\ Includes(activeTests[t].config.protocols, "http")
           => /\ activeTests[t].status = "completed"
              /\ "http" \in DOMAIN activeTests[t].results

\* the protocols of run t whose performanceTest returned a result
Succeeded(t) ==
  {run[t].results[k].protocol :
     k \in {j \in DOMAIN run[t].results :
              "error" \notin DOMAIN run[t].results[j]}}

\* C33: when at least one protocol's run succeeded, the summary of the
\* comparison names as fastest protocol and as lowest-latency protocol
\* protocols whose runs succeeded, never one whose run failed
C33_SummaryNamesSucceededRuns ==
  \A t \in Started :
    run[t].outcome = "resolved" /\ Succeeded(t) # {} =>
      /\ returned[t].comparison.summary.fastestProtocol \in Succeeded(t)
      /\ returned[t].comparison.summary.lowestLatencyProtocol \in Succeeded(t)

\* C34: the keys of a record's results map are requested protocols, 'grpc'
\* or 'http', one entry for each requested known protocol of a completed
\* run, and the gRPC result is stored under 'grpc' in streaming mode too
C34_ResultsKeyedByRequestedProtocol ==
  /\ \A t \in Started :
       /\ DOMAIN activeTests[t].results \subseteq
            Range(activeTests[t].config.protocols) \cap Protocols
       /\ activeTests[t].status = "completed" =>
            DOMAIN activeTests[t].results =
              Range(activeTests[t].config.protocols) \cap Protocols
  /\ call.op = "performanceTest" /\ "stored" \in DOMAIN call =>
       DOMAIN call.stored = {"grpc"}

\* C35: the requests dispatched during one performanceTest are indexed
\* 0..numRequests-1: their ids are pairwise distinct across batches
C35_RequestIdsDistinct ==
  call.op = "dispatch" /\ "ids" \in DOMAIN call =>
    /\ Len(call.ids) = call.config.numRequests
    /\ \A i, j \in DOMAIN call.ids : i # j => call.ids[i] # call.ids[j]
    /\ \A i \in DOMAIN call.ids : call.ids[i] = <<call.client, i - 1>>

\* C36: the HTTP stage of each run uses a client whose maxSockets is the
\* run's httpMaxSockets when it gives one and 50 when it gives none,
\* whatever earlier runs gave
C36_PoolBoundIsPerRun ==
  call.op = "httpClient" =>
    \A t \in DOMAIN call.used :
      call.used[t] =
        IF "httpMaxSockets" \in DOMAIN activeTests[t].config
          THEN activeTests[t].config.httpMaxSockets
          ELSE DefaultMaxSockets

\* C37: between event-loop turns a record of the registry has endTime null
\* exactly when its status is 'running'
C37_EndTimeNullIffRunning ==
  \A t \in DOMAIN activeTests :
    activeTests[t].endTime = Null <=> activeTests[t].status = "running"

C37_Witness ==
  \E t, u \in DOMAIN activeTests :
    /\ activeTests[t].status = "failed"
    /\ activeTests[u].status = "interrupted"
    /\ activeTests[u].endTime # Null
    /\ shutdownOutcome # "none"

\* C38: runTest for the Java backend stores the answer of the gRPC test
\* endpoint under 'grpc' and the answer of the HTTP test endpoint under
\* 'http', for every subset and order of config.protocols
C38_ResultsKeyedByEndpoint ==
  call.op = "runTest" /\ "results" \in DOMAIN call =>
    /\ DOMAIN call.results = Range(call.protocols)
    /\ "grpc" \in DOMAIN call.results =>
          call.results["grpc"].data = "test-grpc"
    /\ "http" \in DOMAIN call.results =>
          call.results["http"].data = "test-http"

====
